---- MODULE Spec2Model ----
(***************************************************************************)
(* Model of the data-cleaning script src/Imputation.py: column             *)
(* normalisation, numeric coercion, grouping-key fill, region-median        *)
(* imputation with a global-median fallback, and the derived                *)
(* gdp_per_capita column.                                                   *)
(*                                                                         *)
(* A data frame is a record [columns, data]: columns is the list of column  *)
(* labels (each label a sequence of one-character strings) and data is the  *)
(* list of columns, in the same order, each a sequence of cells.            *)
(*                                                                         *)
(* A cell is a record [k, n, d, e, s]:                                      *)
(*   k = "nan"   a missing value (NaN), in a numeric or in a text column    *)
(*   k = "num"   the finite number (n / d) * 10^e, n/d in lowest terms      *)
(*   k = "inf"   an IEEE infinity of sign n                                 *)
(*   k = "text"  the text of the number n / d, as read from the file        *)
(*   k = "str"   the text s, which is not a number                          *)
(***************************************************************************)
EXTENDS Integers, Sequences, FiniteSets

VARIABLES
    df,       \* the data frame being cleaned
    pc,       \* the stage of the script that has completed
    raw,      \* the data frame as read_csv returned it
    pre,      \* the data frame as it entered the imputation loop
    report,   \* the printed df.isna().sum(), one count per column
    perm,     \* a permutation of the rows, for the comparison of two row orders
    hdrs,     \* a list of labels being normalised
    hdrs0,    \* that list as given
    prev,     \* that list before the latest normalisation
    applied   \* how many times it was normalised

vars == <<df, pc, raw, pre, report, perm, hdrs, hdrs0, prev, applied>>

----------------------------------------------------------------------------
(* Bounds of the model *)

MaxRows == 2

MaxImputeRows == 4

MaxPermRows == 3

MaxLen == 3

----------------------------------------------------------------------------
(* Column labels *)

gdp == <<"g","d","p">>

gdp_growth == <<"g","d","p","_","g","r","o","w","t","h">>

interest_rate == <<"i","n","t","e","r","e","s","t","_","r","a","t","e">>

inflation_rate == <<"i","n","f","l","a","t","i","o","n","_","r","a","t","e">>

jobless_rate == <<"j","o","b","l","e","s","s","_","r","a","t","e">>

gov_budget == <<"g","o","v","_","b","u","d","g","e","t">>

debt_gdp == <<"d","e","b","t","_","g","d","p">>

current_account == <<"c","u","r","r","e","n","t","_","a","c","c","o","u","n","t">>

population == <<"p","o","p","u","l","a","t","i","o","n">>

area == <<"a","r","e","a">>

region == <<"r","e","g","i","o","n">>

name == <<"n","a","m","e">>

gdp_per_capita == <<"g","d","p","_","p","e","r","_","c","a","p","i","t","a">>

num_cols == <<gdp, gdp_growth, interest_rate, inflation_rate, jobless_rate,
              gov_budget, debt_gdp, current_account, population, area>>

----------------------------------------------------------------------------
(* Characters and the three string operations of the normalisation *)

UpperCase == <<"A","B","C","D","E","F","G","H","I","J","K","L","M",
               "N","O","P","Q","R","S","T","U","V","W","X","Y","Z">>

LowerCase == <<"a","b","c","d","e","f","g","h","i","j","k","l","m",
               "n","o","p","q","r","s","t","u","v","w","x","y","z">>

Digits == {"0","1","2","3","4","5","6","7","8","9"}

Whitespace == {" "}

Range(s) == {s[i] : i \in DOMAIN s}

\* the characters of the class [a-z0-9]
ClassChars == Range(LowerCase) \cup Digits

InClass(ch) == ch \in ClassChars

\* the lower-case form of every upper-case letter
ToLower == [ch \in Range(UpperCase) |->
               LowerCase[CHOOSE i \in DOMAIN UpperCase : UpperCase[i] = ch]]

LowerChar(ch) == IF ch \in DOMAIN ToLower THEN ToLower[ch] ELSE ch

\* str.strip(): leading and trailing whitespace removed
StrStrip(s) ==
    LET keep == {i \in DOMAIN s : s[i] \notin Whitespace}
    IN  IF keep = {} THEN <<>>
        ELSE LET lo == CHOOSE i \in keep : \A j \in keep : i <= j
                 hi == CHOOSE i \in keep : \A j \in keep : j <= i
             IN  SubSeq(s, lo, hi)

\* str.lower()
StrLower(s) == [i \in DOMAIN s |-> LowerChar(s[i])]

RECURSIVE ReplaceFrom(_, _, _, _)
ReplaceFrom(s, i, inRun, repl) ==
    IF i > Len(s) THEN <<>>
    ELSE IF InClass(s[i]) THEN <<s[i]>> \o ReplaceFrom(s, i + 1, FALSE, repl)
    ELSE IF inRun THEN ReplaceFrom(s, i + 1, TRUE, repl)
    ELSE <<repl>> \o ReplaceFrom(s, i + 1, TRUE, repl)

\* mutant: the runs are replaced by a space
StrReplaceBySpace(s) == ReplaceFrom(s, 1, FALSE, " ")

\* str.replace(r'[^a-z0-9]+', '_', regex=True)
StrReplace(s) == ReplaceFrom(s, 1, FALSE, "_")

NormalizeHeader(h) == StrReplace(StrLower(StrStrip(h)))

\* df.columns.str...: the three operations applied to every label, in order
normalize_columns(H) == [i \in DOMAIN H |-> NormalizeHeader(H[i])]

----------------------------------------------------------------------------
(* Floating-point cells *)

NaN == [k |-> "nan", n |-> 0, d |-> 1, e |-> 0, s |-> ""]

Inf(sgn) == [k |-> "inf", n |-> sgn, d |-> 1, e |-> 0, s |-> ""]

Text(v) == [k |-> "text", n |-> v, d |-> 1, e |-> 0, s |-> ""]

Str(t) == [k |-> "str", n |-> 0, d |-> 1, e |-> 0, s |-> t]

Junk == Str("n/a")

Unknown == Str("Unknown")

Abs(x) == IF x < 0 THEN -x ELSE x

Sign(x) == IF x < 0 THEN -1 ELSE IF x > 0 THEN 1 ELSE 0

RECURSIVE GCD(_, _)
GCD(a, b) == IF b = 0 THEN a ELSE GCD(b, a % b)

\* the finite number (n / d) * 10^e, in lowest terms with d > 0
Fin(n, d, e) ==
    IF n = 0 THEN [k |-> "num", n |-> 0, d |-> 1, e |-> 0, s |-> ""]
    ELSE LET g == GCD(Abs(n), Abs(d))
         IN  [k |-> "num", n |-> Sign(d) * (n \div g), d |-> Abs(d) \div g, e |-> e,
              s |-> ""]

Num(v) == Fin(v, 1, 0)

\* Series.isna() on one cell
isna(x) == x.k = "nan"

\* sign of a non-missing number
SignOf(x) == IF x.k = "inf" THEN x.n ELSE Sign(x.n)

\* a < b for non-missing column values (all of exponent 0)
Less(a, b) ==
    CASE a.k = "inf" /\ b.k = "inf" -> a.n < b.n
      [] a.k = "inf" -> a.n < 0
      [] b.k = "inf" -> b.n > 0
      [] OTHER -> a.n * b.d < b.n * a.d

\* (a + b) / 2 in IEEE arithmetic: inf + -inf is NaN
Mean2(a, b) ==
    CASE a.k = "inf" /\ b.k = "inf" -> IF a.n = b.n THEN a ELSE NaN
      [] a.k = "inf" -> a
      [] b.k = "inf" -> b
      [] OTHER -> Fin(a.n * b.d + b.n * a.d, 2 * a.d * b.d, 0)

\* x * 1e9
Times1e9(x) ==
    CASE x.k = "num" -> Fin(x.n, x.d, x.e + 9)
      [] OTHER -> x

\* a / b in IEEE arithmetic, as numpy computes it with errors ignored
Divide(a, b) ==
    CASE isna(a) \/ isna(b) -> NaN
      [] a.k = "inf" /\ b.k = "inf" -> NaN
      [] b.k = "inf" -> Num(0)
      [] b.n = 0 -> IF SignOf(a) = 0 THEN NaN ELSE Inf(SignOf(a))
      [] a.k = "inf" -> Inf(a.n * Sign(b.n))
      [] OTHER -> Fin(a.n * b.d, a.d * b.n, a.e - b.e)

\* mutant: errors="ignore", a cell that is not a number is left as it is
ToNumericIgnore(x) ==
    CASE x.k = "text" -> Fin(x.n, x.d, 0)
      [] OTHER -> x

\* pd.to_numeric(errors="coerce") on one cell
to_numeric(x) ==
    CASE x.k = "text" -> Fin(x.n, x.d, 0)
      [] x.k = "str" -> NaN
      [] OTHER -> x

----------------------------------------------------------------------------
(* Series.median(): NaN is skipped, the rest is sorted *)

RECURSIVE Insert(_, _)
Insert(x, s) ==
    IF s = <<>> THEN <<x>>
    ELSE IF Less(x, Head(s)) THEN <<x>> \o s
    ELSE <<Head(s)>> \o Insert(x, Tail(s))

RECURSIVE Sort(_)
Sort(s) == IF s = <<>> THEN <<>> ELSE Insert(Head(s), Sort(Tail(s)))

dropna(s) == SelectSeq(s, LAMBDA x : ~isna(x))

\* mutant: the middle of the values in row order, unsorted
MedianUnsorted(s) ==
    LET v == dropna(s)
        m == Len(v)
    IN  IF m = 0 THEN NaN
        ELSE IF m % 2 = 1 THEN v[(m + 1) \div 2]
        ELSE Mean2(v[m \div 2], v[m \div 2 + 1])

median(s) ==
    LET v == Sort(dropna(s))
        m == Len(v)
    IN  IF m = 0 THEN NaN
        ELSE IF m % 2 = 1 THEN v[(m + 1) \div 2]
        ELSE Mean2(v[m \div 2], v[m \div 2 + 1])

\* Series.fillna(value): a NaN value fills nothing
fillna(s, value) == [i \in DOMAIN s |-> IF isna(s[i]) THEN value ELSE s[i]]

----------------------------------------------------------------------------
(* Data frames *)

NRows(f) == IF f.data = <<>> THEN 0 ELSE Len(f.data[1])

\* c in df.columns
HasCol(f, c) == \E i \in DOMAIN f.columns : f.columns[i] = c

\* the number of columns labelled c
Count(f, c) == Cardinality({i \in DOMAIN f.columns : f.columns[i] = c})

Loc(f, c) == CHOOSE i \in DOMAIN f.columns : f.columns[i] = c

\* df[c], for a label that names one column
Col(f, c) == f.data[Loc(f, c)]

\* df[c] = s: the column is replaced in place, a new label is appended
SetCol(f, c, s) ==
    IF HasCol(f, c)
    THEN [f EXCEPT !.data[Loc(f, c)] = s]
    ELSE [columns |-> Append(f.columns, c), data |-> Append(f.data, s)]

----------------------------------------------------------------------------
(* The stages of the script *)

\* lines 58-60: for c in num_cols: if c in df.columns: df[c] = to_numeric(df[c]).
\* df[c] is a DataFrame when two columns carry the label c, and to_numeric
\* raises TypeError for it; the columns coerced before stay coerced.
RECURSIVE CoerceFrom(_, _)
CoerceFrom(f, i) ==
    IF i > Len(num_cols) THEN [df |-> f, raised |-> FALSE]
    ELSE LET c == num_cols[i]
         IN  IF ~HasCol(f, c) THEN CoerceFrom(f, i + 1)
             ELSE IF Count(f, c) > 1 THEN [df |-> f, raised |-> TRUE]
             ELSE CoerceFrom(
                      SetCol(f, c, [r \in DOMAIN Col(f, c) |-> to_numeric(Col(f, c)[r])]),
                      i + 1)

\* mutant: errors="raise", the default: text that is no number raises
CoerceNumericStrict(f) ==
    IF \E i \in DOMAIN num_cols : \E j \in DOMAIN f.columns :
           f.columns[j] = num_cols[i] /\ \E r \in DOMAIN f.data[j] : f.data[j][r].k = "str"
    THEN [df |-> f, raised |-> TRUE]
    ELSE CoerceFrom(f, 1)

coerce_numeric(f) == CoerceFrom(f, 1)

\* mutant: an existing region column is left as it is
FillGroupingKeyNoFill(f) ==
    IF HasCol(f, region) THEN f
    ELSE SetCol(f, region, [r \in 1..NRows(f) |-> Unknown])

\* lines 63-66
fill_grouping_key(f) ==
    IF HasCol(f, region)
    THEN SetCol(f, region,
                [r \in DOMAIN Col(f, region) |->
                    IF isna(Col(f, region)[r]) THEN Unknown ELSE Col(f, region)[r]])
    ELSE SetCol(f, region, [r \in 1..NRows(f) |-> Unknown])

\* the values of s in the rows whose key is g, in row order
RECURSIVE GroupFrom(_, _, _, _)
GroupFrom(s, keys, g, i) ==
    IF i > Len(s) THEN <<>>
    ELSE IF keys[i] = g THEN <<s[i]>> \o GroupFrom(s, keys, g, i + 1)
    ELSE GroupFrom(s, keys, g, i + 1)

\* mutant: a missing cell takes the median of the whole column
GroupPassGlobal(f, c) == fillna(Col(f, c), median(Col(f, c)))

\* mutant: a missing cell takes the first value of its group, in row order
GroupPassFirst(f, c) ==
    LET s == Col(f, c)
        keys == Col(f, region)
    IN  [r \in DOMAIN s |->
            IF isna(s[r])
            THEN LET g == dropna(GroupFrom(s, keys, keys[r], 1))
                 IN  IF g = <<>> THEN NaN ELSE g[1]
            ELSE s[r]]

\* mutant: transform(lambda s: s.median()), every cell takes the median of its
\* group
GroupPassOverwrite(f, c) ==
    LET s == Col(f, c)
        keys == Col(f, region)
    IN  [r \in DOMAIN s |-> median(GroupFrom(s, keys, keys[r], 1))]

\* lines 71-73: df.groupby("region")[c].transform(lambda s: s.fillna(s.median()))
\* (the region column holds no missing key here, so no row is dropped)
GroupPass(f, c) ==
    LET s == Col(f, c)
        keys == Col(f, region)
    IN  [r \in DOMAIN s |->
            IF isna(s[r]) THEN median(GroupFrom(s, keys, keys[r], 1)) ELSE s[r]]

\* mutant: no fallback after the group pass
GlobalPassNone(f, c) == GroupPass(f, c)

\* mutant: the fallback median is taken over the column as it was before the
\* group pass
GlobalPassOfOriginal(f, c) == fillna(GroupPass(f, c), median(Col(f, c)))

\* mutant: what no median can fill is set to zero
GlobalPassZero(f, c) ==
    fillna(fillna(GroupPass(f, c), median(GroupPass(f, c))), Num(0))

\* line 75: df[c] = df[c].fillna(df[c].median()), on the group-filled column
GlobalPass(f, c) == fillna(GroupPass(f, c), median(GroupPass(f, c)))

\* lines 69-75
RECURSIVE ImputeFrom(_, _)
ImputeFrom(f, i) ==
    IF i > Len(num_cols) THEN f
    ELSE LET c == num_cols[i]
         IN  IF HasCol(f, c)
             THEN ImputeFrom(SetCol(f, c, GlobalPass(f, c)), i + 1)
             ELSE ImputeFrom(f, i + 1)

impute_numeric_fields(f) == ImputeFrom(f, 1)

\* mutant: the factor 1e9 is left out
GdpPerCapitaNoScale(f) ==
    [r \in 1..NRows(f) |-> Divide(Col(f, gdp)[r], Col(f, population)[r])]

\* line 78, right-hand side: (df["gdp"] * 1e9) / df["population"]
GdpPerCapita(f) ==
    [r \in 1..NRows(f) |-> Divide(Times1e9(Col(f, gdp)[r]), Col(f, population)[r])]

\* mutant: a zero population raises, as a division of Python numbers would
DeriveRaisesOnZero(f) ==
    \/ ~HasCol(f, gdp)
    \/ ~HasCol(f, population)
    \/ \E r \in 1..NRows(f) :
           Col(f, population)[r].k = "num" /\ Col(f, population)[r].n = 0

\* line 78: df["gdp"] and df["population"] raise KeyError for an absent label
DeriveRaises(f) == ~HasCol(f, gdp) \/ ~HasCol(f, population)

derive_gdp_per_capita(f) == SetCol(f, gdp_per_capita, GdpPerCapita(f))

\* df[c].isna().sum() of the column at position j
MissingAt(f, j) ==
    Cardinality({r \in DOMAIN f.data[j] : isna(f.data[j][r])})

\* line 84: df.isna().sum()
isna_sum(f) == [j \in DOMAIN f.columns |-> MissingAt(f, j)]

----------------------------------------------------------------------------
(* The files the script is run on: header lines as written, before          *)
(* normalisation, and the cells read under each                             *)

RawName == <<"N","a","m","e">>

RawRegion == <<"R","e","g","i","o","n"," ">>

RawGdp == <<" ","G","D","P">>

RawPopulation == <<"P","o","p","u","l","a","t","i","o","n">>

RawGdpGrowth == <<"G","D","P"," ","-"," ","G","r","o","w","t","h">>

RawHeaderLists ==
    { <<RawName, RawRegion, RawGdp, RawPopulation>>,
      <<RawPopulation, RawName, RawGdp>>,
      <<RawName, RawRegion, RawPopulation>>,
      <<RawName, RawRegion, RawGdp>>,
      <<RawName, RawGdp, gdp>>,
      <<RawName, RawGdpGrowth, RawRegion>>,
      <<RawName>> }

\* the cells a column of the file may hold, by what its label normalises to
CellsFor(h) ==
    LET c == NormalizeHeader(h)
    IN  CASE c = region -> {Str("A"), NaN}
          [] c = gdp -> {NaN, Junk, Text(0), Text(10), Text(-10)}
          [] c = population -> {NaN, Text(0), Text(2)}
          [] c = gdp_growth -> {NaN, Text(1)}
          [] OTHER -> {Str("X")}

\* every list of columns of n rows under the labels hs[j..]
RECURSIVE ColumnsFrom(_, _, _)
ColumnsFrom(hs, n, j) ==
    IF j > Len(hs) THEN {<<>>}
    ELSE {<<col>> \o rest : col \in [1..n -> CellsFor(hs[j])],
                            rest \in ColumnsFrom(hs, n, j + 1)}

Frames(hs, n) == {[columns |-> hs, data |-> d] : d \in ColumnsFrom(hs, n, 1)}

\* the three rows of the worked example
ExampleFrame ==
    [columns |-> <<RawName, RawRegion, RawGdp, RawPopulation>>,
     data |-> << <<Str("X"), Str("X"), Str("X")>>,
                 <<Str("A"), Str("A"), Str("B")>>,
                 <<Text(10), NaN, Text(30)>>,
                 <<Text(2), Text(4), NaN>> >>]

NoFrame == [columns |-> <<>>, data |-> <<>>]

Init ==
    /\ \/ df = ExampleFrame
       \/ \E hs \in RawHeaderLists, n \in 0..MaxRows : df \in Frames(hs, n)
    /\ raw = df
    /\ pc = "read"
    /\ pre = NoFrame
    /\ report = <<>>
    /\ perm = <<>>
    /\ hdrs = <<>>
    /\ hdrs0 = <<>>
    /\ prev = <<>>
    /\ applied = 0

\* lines 36-41
Normalize ==
    /\ pc = "read"
    /\ df' = [df EXCEPT !.columns = normalize_columns(df.columns)]
    /\ pc' = "normalized"
    /\ UNCHANGED <<raw, pre, report, perm, hdrs, hdrs0, prev, applied>>

\* lines 58-60
Coerce ==
    /\ pc = "normalized"
    /\ df' = coerce_numeric(df).df
    /\ pc' = IF coerce_numeric(df).raised THEN "raised_in_coerce" ELSE "coerced"
    /\ UNCHANGED <<raw, pre, report, perm, hdrs, hdrs0, prev, applied>>

\* lines 63-66
FillKey ==
    /\ pc = "coerced"
    /\ df' = fill_grouping_key(df)
    /\ pc' = "keyed"
    /\ UNCHANGED <<raw, pre, report, perm, hdrs, hdrs0, prev, applied>>

\* lines 69-75
Impute ==
    /\ pc = "keyed"
    /\ pre' = df
    /\ df' = impute_numeric_fields(df)
    /\ pc' = "imputed"
    /\ UNCHANGED <<raw, report, perm, hdrs, hdrs0, prev, applied>>

\* line 78
Derive ==
    /\ pc = "imputed"
    /\ IF DeriveRaises(df)
       THEN df' = df /\ pc' = "raised_in_derive"
       ELSE df' = derive_gdp_per_capita(df) /\ pc' = "derived"
    /\ UNCHANGED <<raw, pre, report, perm, hdrs, hdrs0, prev, applied>>

\* lines 81-84: the frame is written and the missing-value counts printed
SaveAndReport ==
    /\ pc = "derived"
    /\ report' = isna_sum(df)
    /\ pc' = "done"
    /\ UNCHANGED <<df, raw, pre, perm, hdrs, hdrs0, prev, applied>>

Next == Normalize \/ Coerce \/ FillKey \/ Impute \/ Derive \/ SaveAndReport

Spec == Init /\ [][Next]_vars

----------------------------------------------------------------------------
(* The imputation loop on its own: frames as they enter it, with the region  *)
(* column filled and one numeric column                                      *)

Groups == {Str("A"), Str("B"), Unknown}

Values == {NaN, Num(1), Num(3), Inf(1), Inf(-1)}

\* the frame of the rows (X, g[r], v[r])
KeyedFrame(g, v) ==
    [columns |-> <<name, region, gdp>>,
     data |-> <<[r \in DOMAIN g |-> Str("X")], g, v>>]

InitImpute ==
    /\ \E n \in 0..MaxImputeRows :
          \E g \in [1..n -> Groups], v \in [1..n -> Values] : df = KeyedFrame(g, v)
    /\ raw = NoFrame
    /\ pc = "keyed"
    /\ pre = NoFrame
    /\ report = <<>>
    /\ perm = <<>>
    /\ hdrs = <<>>
    /\ hdrs0 = <<>>
    /\ prev = <<>>
    /\ applied = 0

NextImpute == Impute

SpecImpute == InitImpute /\ [][NextImpute]_vars

(* The same, with a permutation of the rows chosen beforehand *)

PermGroups == {Str("A"), Unknown}

PermValues == {NaN, Num(1), Num(3), Inf(1), Inf(-1)}

RowPermutations(n) == {p \in [1..n -> 1..n] : \A i, j \in 1..n : p[i] = p[j] => i = j}

\* the frame whose row r is row p[r] of f
Permute(f, p) ==
    [f EXCEPT !.data = [j \in DOMAIN f.data |-> [r \in DOMAIN p |-> f.data[j][p[r]]]]]

InitPerm ==
    /\ \E n \in 0..MaxPermRows :
          /\ \E g \in [1..n -> PermGroups], v \in [1..n -> PermValues] :
                df = KeyedFrame(g, v)
          /\ perm \in RowPermutations(n)
    /\ raw = NoFrame
    /\ pc = "keyed"
    /\ pre = NoFrame
    /\ report = <<>>
    /\ hdrs = <<>>
    /\ hdrs0 = <<>>
    /\ prev = <<>>
    /\ applied = 0

SpecPerm == InitPerm /\ [][NextImpute]_vars

----------------------------------------------------------------------------
(* The normalisation on its own, applied to a list of labels and then to    *)
(* its own result                                                            *)

Alphabet == {" ", "A", "a", "0", "_", "-"}

RECURSIVE Strings(_)
Strings(len) ==
    IF len = 0 THEN {<<>>}
    ELSE Strings(len - 1) \cup
         {Append(h, ch) : h \in {x \in Strings(len - 1) : Len(x) = len - 1},
                          ch \in Alphabet}

\* one label of up to MaxLen characters, or two of up to MaxLen - 1
HeaderLists ==
    {<<h>> : h \in Strings(MaxLen)} \cup
    {<<h1, h2>> : h1 \in Strings(MaxLen - 1), h2 \in Strings(MaxLen - 1)}

InitNorm ==
    /\ hdrs \in HeaderLists
    /\ hdrs0 = hdrs
    /\ prev = hdrs
    /\ applied = 0
    /\ df = NoFrame
    /\ raw = NoFrame
    /\ pre = NoFrame
    /\ pc = "norm"
    /\ report = <<>>
    /\ perm = <<>>

\* lines 36-41 (and 7-12), df.columns = ...: the labels are replaced by their
\* normalised forms; here the statement is run on a list and then on its result
NormalizeLabels ==
    /\ pc = "norm"
    /\ applied < 2
    /\ prev' = hdrs
    /\ hdrs' = normalize_columns(hdrs)
    /\ applied' = applied + 1
    /\ UNCHANGED <<df, pc, raw, pre, report, perm, hdrs0>>

NextNorm == NormalizeLabels

SpecNorm == InitNorm /\ [][NextNorm]_vars

----------------------------------------------------------------------------
(* Properties *)

\* the stages at which the grouping key has been filled
AfterFillKey == {"keyed", "imputed", "derived", "done", "raised_in_derive"}

\* the stages at which the imputation loop has run
AfterImpute == {"imputed", "derived", "done", "raised_in_derive"}

\* the file had a column whose label normalises to c
RawHas(c) == \E j \in DOMAIN raw.columns : NormalizeHeader(raw.columns[j]) = c

\* that column, as read
RawCol(c) ==
    raw.data[CHOOSE j \in DOMAIN raw.columns : NormalizeHeader(raw.columns[j]) = c]

\* C9: normalising a list of labels a second time changes nothing, and the
\* normalised list has the length of the given one, its i-th label being the
\* normal form of the i-th given label.
C9_NormalizeIdempotent ==
    /\ applied = 2 => hdrs = prev
    /\ applied >= 1 =>
          /\ Len(hdrs) = Len(hdrs0)
          /\ \A i \in 1..Len(hdrs0) : hdrs[i] = NormalizeHeader(hdrs0[i])

\* two labels that the first normalisation changes (strip and lower-case; a
\* run of two characters to one underscore), normalised twice
C9_Witness ==
    /\ applied = 2
    /\ hdrs0 = << <<" ", "A">>, <<"-", "_">> >>
    /\ hdrs = << <<"a">>, <<"_">> >>

\* C10: once fill_grouping_key has run, and in every later stage up to the
\* final output, there is one region column, it has a cell for every row of
\* the file and none is missing; where the file had a region column its
\* present cells are unchanged and its missing cells read "Unknown", and
\* where it had none every cell reads "Unknown".
C10_RegionNeverNull ==
    pc \in AfterFillKey =>
        LET had == RawHas(region)
            was == IF had THEN RawCol(region) ELSE <<>>
            now == Col(df, region)
        IN  /\ Count(df, region) = 1
            /\ Len(now) = NRows(raw)
            /\ \A r \in 1..NRows(raw) :
                  /\ ~isna(now[r])
                  /\ now[r] = IF had /\ ~isna(was[r]) THEN was[r] ELSE Unknown

\* the final output of a file whose region column had a missing and a present
\* cell
C10_Witness ==
    /\ pc = "done"
    /\ RawHas(region)
    /\ NRows(raw) = 2
    /\ isna(RawCol(region)[1])
    /\ RawCol(region)[2] = Str("A")
    /\ Col(df, region) = <<Unknown, Str("A")>>

\* the indicator columns of the frame
Indicators(f) == {num_cols[i] : i \in {j \in DOMAIN num_cols : HasCol(f, num_cols[j])}}

\* line 78 has what it needs: gdp and population are columns of the file
DeriveInputsPresent == RawHas(gdp) /\ RawHas(population)

\* no indicator label is carried by two columns of the file
IndicatorLabelsUnique ==
    LET labels == normalize_columns(raw.columns)
    IN  \A i, j \in DOMAIN labels :
            (labels[i] = labels[j] /\ labels[i] \in Range(num_cols)) => i = j

\* C4: an indicator column with no value in any row when the imputation loop
\* starts has no value in any row after it, through to the final output, and
\* the printed count of missing values for it is the number of rows.
C4_NoDataColumn ==
    pc \in AfterImpute =>
        \A c \in Indicators(pre) :
            (\A r \in 1..NRows(pre) : isna(Col(pre, c)[r])) =>
                /\ Len(Col(df, c)) = NRows(pre)
                /\ \A r \in 1..NRows(pre) : isna(Col(df, c)[r])
                /\ pc = "done" => report[Loc(df, c)] = NRows(pre)

\* a finished run on two rows whose gdp cells were all missing or not numbers
C4_Witness ==
    /\ pc = "done"
    /\ NRows(raw) = 2
    /\ RawCol(gdp) = <<NaN, Junk>>
    /\ Col(df, gdp) = <<NaN, NaN>>
    /\ report[Loc(df, gdp)] = 2
    /\ report[Loc(df, population)] = 0

IsRatio(x, g, p) ==
    IF g.n = 0 THEN x = Num(0)
    ELSE /\ x.k = "num"
         /\ x.e = 9
         /\ x.n * p.n * g.d = g.n * p.d * x.d

\* C6: in the output, every row whose population is a number above zero and
\* whose gdp is a number has gdp_per_capita = gdp * 1e9 / population, taken
\* from the imputed cells of that row; the three rows of the worked example
\* get 5e9, 2.5e9 and 1e10.
C6_DerivedField ==
    pc \in {"derived", "done"} =>
        /\ \A r \in 1..NRows(df) :
              LET g == Col(df, gdp)[r]
                  p == Col(df, population)[r]
              IN  (p.k = "num" /\ p.n > 0 /\ g.k = "num") =>
                      IsRatio(Col(df, gdp_per_capita)[r], g, p)
        /\ raw = ExampleFrame =>
              /\ Col(df, gdp) = <<Num(10), Num(10), Num(30)>>
              /\ Col(df, population) = <<Num(2), Num(4), Num(3)>>
              /\ Col(df, gdp_per_capita) = <<Fin(5, 1, 9), Fin(5, 2, 9), Fin(10, 1, 9)>>

\* the worked example, cleaned
C6_Witness ==
    /\ pc = "done"
    /\ raw = ExampleFrame
    /\ Col(df, gdp_per_capita)[2] = Fin(5, 2, 9)

\* C7 as stated: a row whose population is zero or missing gets NaN,
\* whatever its gdp.
C7_ZeroPopulationIsNaN ==
    pc \in {"derived", "done"} =>
        \A r \in 1..NRows(df) :
            LET p == Col(df, population)[r]
            IN  (isna(p) \/ (p.k = "num" /\ p.n = 0)) =>
                    isna(Col(df, gdp_per_capita)[r])

\* C7, amended: line 78 does not raise for a zero or missing population; the
\* row's gdp_per_capita is NaN when the population is missing, or is zero
\* with a gdp that is zero or missing, and is the infinity of the sign of gdp
\* when the population is zero and gdp is not; the rows with a population
\* above zero keep gdp * 1e9 / population.
C7_ZeroPopulation ==
    /\ pc = "raised_in_derive" => ~(HasCol(df, gdp) /\ HasCol(df, population))
    /\ pc \in {"derived", "done"} =>
          \A r \in 1..NRows(df) :
              LET g == Col(df, gdp)[r]
                  p == Col(df, population)[r]
                  x == Col(df, gdp_per_capita)[r]
              IN  /\ isna(p) => isna(x)
                  /\ (p.k = "num" /\ p.n = 0 /\ (isna(g) \/ SignOf(g) = 0)) => isna(x)
                  /\ (p.k = "num" /\ p.n = 0 /\ ~isna(g) /\ SignOf(g) # 0) =>
                          x = Inf(SignOf(g))
                  /\ (p.k = "num" /\ p.n > 0 /\ g.k = "num") => IsRatio(x, g, p)

\* an output with a zero population beside a positive gdp in one row and a
\* usual row next to it
C7_Witness ==
    /\ pc = "done"
    /\ NRows(df) = 2
    /\ Col(df, population) = <<Num(0), Num(2)>>
    /\ Col(df, gdp) = <<Num(10), Num(-10)>>
    /\ Col(df, gdp_per_capita) = <<Inf(1), Fin(-5, 1, 9)>>

----------------------------------------------------------------------------
(* The median by order statistics, for the statements about imputed values *)

\* a <= b for non-missing values
LessEq(a, b) == a = b \/ Less(a, b)

\* the value at position p (from 1) of the non-missing values v in ascending
\* order: fewer than p values lie below it and at least p at or below it
Kth(v, p) ==
    CHOOSE x \in Range(v) :
        /\ Cardinality({i \in DOMAIN v : Less(v[i], x)}) < p
        /\ Cardinality({i \in DOMAIN v : LessEq(v[i], x)}) >= p

\* the median of the non-missing values of s: the middle one, or the mean of
\* the two middle ones; NaN when there is none
MedianOf(s) ==
    LET v == dropna(s)
        m == Len(v)
    IN  IF m = 0 THEN NaN
        ELSE IF m % 2 = 1 THEN Kth(v, (m + 1) \div 2)
        ELSE Mean2(Kth(v, m \div 2), Kth(v, m \div 2 + 1))

\* the cells of column c of f in the rows of the group of row r
GroupOf(f, c, r) ==
    LET rows == {q \in 1..NRows(f) : Col(f, region)[q] = Col(f, region)[r]}
    IN  SelectSeq([q \in 1..NRows(f) |-> IF q \in rows THEN Col(f, c)[q] ELSE NaN],
                  LAMBDA x : TRUE)

\* column c of f after the group pass: a missing cell takes the median of the
\* values of its group, and stays missing when the group has none
GroupFilled(f, c) ==
    [r \in 1..NRows(f) |->
        IF isna(Col(f, c)[r]) THEN MedianOf(GroupOf(f, c, r)) ELSE Col(f, c)[r]]

HasValue(s) == \E r \in DOMAIN s : ~isna(s[r])

\* C1 as stated: after the imputation loop, an indicator column that had a
\* value in some row has a value in every row.
C1_Complete ==
    pc = "imputed" =>
        \A c \in Indicators(pre) :
            HasValue(Col(pre, c)) => \A r \in 1..NRows(df) : ~isna(Col(df, c)[r])

\* C1, amended: after the imputation loop, an indicator column that had a
\* value in some row has a value in every row, provided the median of the
\* column after the group pass is defined (its two middle values are not
\* +inf and -inf).
C1_CompleteWhereMedianDefined ==
    pc = "imputed" =>
        \A c \in Indicators(pre) :
            (HasValue(Col(pre, c)) /\ ~isna(MedianOf(GroupFilled(pre, c)))) =>
                \A r \in 1..NRows(df) : ~isna(Col(df, c)[r])

\* a column with a value in one group and nothing in the other, complete
\* after the loop
C1_Witness ==
    /\ pc = "imputed"
    /\ Col(pre, region) = <<Str("B"), Str("A"), Str("B")>>
    /\ Col(pre, gdp) = <<Num(3), NaN, NaN>>
    /\ Col(df, gdp) = <<Num(3), Num(3), Num(3)>>

\* C2 as stated: after the imputation loop, a cell that was missing in a row
\* whose group had a value holds the median of the values the group had.
C2_GroupPreferred ==
    pc = "imputed" =>
        \A c \in Indicators(pre) : \A r \in 1..NRows(pre) :
            (isna(Col(pre, c)[r]) /\ HasValue(GroupOf(pre, c, r))) =>
                Col(df, c)[r] = MedianOf(GroupOf(pre, c, r))

\* C2, amended: after the imputation loop, a cell that was missing in a row
\* whose group had a value holds the median of the values the group had
\* when that median is defined; when it is not (the two middle values of the
\* group are +inf and -inf) the cell holds the median of the whole column
\* after the group pass.
C2_GroupPreferredWhereDefined ==
    pc = "imputed" =>
        \A c \in Indicators(pre) : \A r \in 1..NRows(pre) :
            (isna(Col(pre, c)[r]) /\ HasValue(GroupOf(pre, c, r))) =>
                Col(df, c)[r] =
                    IF isna(MedianOf(GroupOf(pre, c, r)))
                    THEN MedianOf(GroupFilled(pre, c))
                    ELSE MedianOf(GroupOf(pre, c, r))

\* a gap in a group with the values 1 and 3, beside a group with the value
\* 3: the gap takes 2, the median of its group, and not 3, the median of the
\* column
C2_Witness ==
    /\ pc = "imputed"
    /\ Col(pre, region) = <<Str("A"), Str("A"), Str("A"), Str("B")>>
    /\ Col(pre, gdp) = <<Num(1), Num(3), NaN, Num(3)>>
    /\ MedianOf(Col(pre, gdp)) = Num(3)
    /\ Col(df, gdp) = <<Num(1), Num(3), Num(2), Num(3)>>

\* C3: after the imputation loop, a cell that was missing in a row whose
\* group had no value, in a column that had one, holds the median of the
\* whole column as it was after the group pass.
C3_Fallback ==
    pc = "imputed" =>
        \A c \in Indicators(pre) : \A r \in 1..NRows(pre) :
            (/\ isna(Col(pre, c)[r])
             /\ ~HasValue(GroupOf(pre, c, r))
             /\ HasValue(Col(pre, c))) =>
                Col(df, c)[r] = MedianOf(GroupFilled(pre, c))

\* a group with the values 1 and a gap, a group with the value 3 and a group
\* with nothing: the gap of the first takes 1, and the median of the column
\* is then 1 and no longer 2
C3_Witness ==
    /\ pc = "imputed"
    /\ Col(pre, region) = <<Str("A"), Str("A"), Str("B"), Unknown>>
    /\ Col(pre, gdp) = <<Num(1), NaN, Num(3), NaN>>
    /\ MedianOf(Col(pre, gdp)) = Num(2)
    /\ Col(df, gdp) = <<Num(1), Num(1), Num(3), Num(1)>>

----------------------------------------------------------------------------
(* Coercion of the indicator columns *)

\* the frame after coerce_numeric against the file as read: the labels are
\* the normalised labels of the file, so no column was created; a cell of an
\* indicator column that was not a number is missing, a cell that was the
\* text of a number is that number, a cell that was a number or missing is
\* as it was, and the cells of every other column are as read
CoercedCellwise ==
    LET labels == normalize_columns(raw.columns)
        present == Range(labels)
    IN  /\ df.columns = labels
        /\ Len(df.data) = Len(raw.data)
        /\ \A i \in DOMAIN num_cols :
              num_cols[i] \notin present => ~HasCol(df, num_cols[i])
        /\ \A j \in DOMAIN labels :
              /\ Len(df.data[j]) = Len(raw.data[j])
              /\ \A r \in DOMAIN raw.data[j] :
                    LET was == raw.data[j][r]
                        now == df.data[j][r]
                    IN  IF labels[j] \in Range(num_cols)
                        THEN /\ now.k \in {"num", "inf", "nan"}
                             /\ was.k = "str" => isna(now)
                             /\ was.k = "text" =>
                                   /\ now.k = "num"
                                   /\ now.e = 0
                                   /\ now.n * was.d = was.n * now.d
                             /\ was.k \in {"num", "inf", "nan"} => now = was
                        ELSE now = was

\* C11 as stated: coerce_numeric never raises, and after it every cell of a
\* present indicator column that was not a number is missing, every cell
\* that was a number has its numeric value, no absent indicator column was
\* created, and the indicator columns hold only numbers and missing values.
C11_CoerceRecovers ==
    /\ pc # "raised_in_coerce"
    /\ pc = "coerced" => CoercedCellwise

\* C11, amended: the same, for a file in which no indicator label is carried
\* by two columns.
C11_CoerceRecoversUniqueLabels ==
    IndicatorLabelsUnique =>
        /\ pc # "raised_in_coerce"
        /\ pc = "coerced" => CoercedCellwise

\* a file without a region column, just coerced: the gdp cell that was not a
\* number is missing and the one that was the text of 10 is 10
C11_Witness ==
    /\ pc = "coerced"
    /\ IndicatorLabelsUnique
    /\ RawHas(gdp)
    /\ ~RawHas(region)
    /\ ~HasCol(df, region)
    /\ ~HasCol(df, area)
    /\ RawCol(gdp) = <<Junk, Text(10)>>
    /\ Col(df, gdp) = <<NaN, Num(10)>>

----------------------------------------------------------------------------
(* What the imputation loop leaves alone *)

\* C12: after impute_numeric_fields the frame has the columns and the rows
\* it had before; every cell that was not missing is unchanged, in every
\* column; the region column, the identifier column and every other column
\* that is not an indicator are unchanged; and each indicator column is what
\* its own cells and the region column as they were before the loop
\* determine (the group medians, then the median of the column so filled),
\* whatever was imputed into the other indicator columns.
C12_OnlyFillsGaps ==
    pc = "imputed" =>
        /\ df.columns = pre.columns
        /\ Len(df.data) = Len(pre.data)
        /\ NRows(df) = NRows(pre)
        /\ \A j \in DOMAIN pre.columns :
              LET c == pre.columns[j]
                  was == pre.data[j]
                  now == df.data[j]
              IN  /\ Len(now) = Len(was)
                  /\ \A r \in DOMAIN was : ~isna(was[r]) => now[r] = was[r]
                  /\ IF c \in Range(num_cols)
                     THEN LET g == GroupFilled(pre, c)
                          IN  now = fillna(g, MedianOf(g))
                     ELSE now = was

\* two rows just imputed: gdp had a gap beside 10, population a gap beside
\* 2; both gaps are filled, the values beside them and the region and name
\* columns are as they were
C12_Witness ==
    /\ pc = "imputed"
    /\ pre.columns = <<name, region, gdp, population>>
    /\ Col(pre, region) = <<Str("A"), Unknown>>
    /\ Col(pre, gdp) = <<Num(10), NaN>>
    /\ Col(pre, population) = <<NaN, Num(2)>>
    /\ Col(df, region) = <<Str("A"), Unknown>>
    /\ Col(df, name) = Col(pre, name)
    /\ Col(df, gdp) = <<Num(10), Num(10)>>
    /\ Col(df, population) = <<Num(2), Num(2)>>

====
